---- MODULE Spec2Model ----
(***************************************************************************)
(* The codec of the wasm "name" custom section (src/src/name_section.rs):  *)
(* the tagged NameSection value, its framing (name_type, name_payload_len, *)
(* name_payload) and the three sub-section codecs.                         *)
(*                                                                         *)
(* A byte stream is a sequence of naturals 0..255; a reader is a stream    *)
(* with a cursor `pos`, the 1-based index of the next byte to read.  A     *)
(* string is the sequence of its UTF-8 bytes.  An IndexMap is a function   *)
(* from a finite set of indices to its elements.                           *)
(***************************************************************************)
EXTENDS Integers, Sequences, FiniteSets, TLC

VARIABLES
    sect,              \* the NameSection value the caller is building
    locals,            \* the NameMap the caller is building for a function
    inserts,           \* the insert calls made so far, in call order
    written,           \* the values handed to NameSection::serialize, in order
    buf,               \* the bytes behind the reader (Cursor<Vec<u8>>)
    pos,               \* the reader's cursor
    pc,                \* where the caller / the running deserialize call is
    name_type,         \* deserialize's local `name_type`
    name_payload_len,  \* deserialize's local `name_payload_len`
    body_pos,          \* the cursor right after the length field
    alloc,             \* size of the `name_payload` vector deserialize holds
    result,            \* what the last deserialize call returned
    decoded,           \* what the deserialize calls returned, in order
    wtr                \* the writer the decoded value is serialized back into

vars == <<sect, locals, inserts, written, buf, pos, pc, name_type, name_payload_len, body_pos,
          alloc, result, decoded, wtr>>

-----------------------------------------------------------------------------
(* Bounds of the model *)

\* longest input buffer handed to deserialize in SpecDecode
MaxBufLen == 6

\* most sections serialized one after another into one buffer in SpecStream
MaxSections == 2

\* most insert calls made while one section is built in Spec
MaxInserts == 3

\* The bytes input buffers are made of: the three known tags, an unknown tag
\* below 128, and 128 (0x80): an unknown tag above 127, a LEB128 continuation
\* byte with no payload bits, and a byte that is not valid UTF-8.
InputBytes == {0, 1, 2, 3, 128}

\* Indices and names the builder inserts; 97 is "a".
Indices == {0, 5}
Names == {<< >>, <<97>>}

\* Tags and payloads given to NameSection::Unparsed by a caller.
UnparsedTypes == {0, 3, 200}
UnparsedPayloads == {<< >>, <<0, 1, 2>>}

\* Values of name_payload_len a section header can declare (for comparisons).
DeclaredLens == {0, 1, 2, 3, 7, 128, 16384}

-----------------------------------------------------------------------------
(* Program constants *)

NAME_TYPE_MODULE == 0
NAME_TYPE_FUNCTION == 1
NAME_TYPE_LOCAL == 2

KnownTypes == {NAME_TYPE_MODULE, NAME_TYPE_FUNCTION, NAME_TYPE_LOCAL}

-----------------------------------------------------------------------------
(* Generic helpers *)

RECURSIVE Concat(_)
\* the concatenation of a sequence of byte sequences
Concat(ss) == IF ss = << >> THEN << >> ELSE Head(ss) \o Concat(Tail(ss))

RECURSIVE SortedKeys(_)
\* the elements of a finite set of naturals, ascending
SortedKeys(S) ==
    IF S = {} THEN << >>
    ELSE LET m == CHOOSE x \in S : \A y \in S : x <= y
         IN <<m>> \o SortedKeys(S \ {m})

RECURSIVE SeqsUpTo(_, _)
\* all sequences over S of length at most n
SeqsUpTo(S, n) ==
    IF n = 0 THEN {<< >>}
    ELSE LET shorter == SeqsUpTo(S, n - 1)
         IN shorter \cup {Append(s, b) : s \in shorter, b \in S}

\* a read that failed, and a read that returned val and left the cursor at p;
\* canon records whether every varuint32 the read decoded was minimally encoded
Err(kind) == [ok |-> FALSE, err |-> kind]
Ok(val, p, canon) == [ok |-> TRUE, val |-> val, pos |-> p, canon |-> canon]

\* bytes the reader still holds at cursor p
Remaining(b, p) == Len(b) - p + 1

-----------------------------------------------------------------------------
(* The primitives of parity_wasm::elements the codec calls *)

\* VarUint7::serialize: the value as one byte, written as it is
VarUint7Serialize(v) == <<v>>

\* VarUint7::deserialize: one byte read from the reader, returned as it is
VarUint7Deserialize(b, p) ==
    IF p > Len(b) THEN Err("UnexpectedEof") ELSE Ok(b[p], p + 1, TRUE)

RECURSIVE VarUint32Serialize(_)
\* VarUint32::serialize: unsigned LEB128, seven bits a byte, low bits first,
\* bit 7 set on every byte but the last
VarUint32Serialize(n) ==
    IF n < 128 THEN <<n>>
    ELSE <<128 + (n % 128)>> \o VarUint32Serialize(n \div 128)

RECURSIVE VarUint32Read(_, _, _, _)
\* the loop of VarUint32::deserialize: at most five bytes, each giving seven
\* bits at `shift`; the fifth byte may carry the four bits 28..31 only
VarUint32Read(b, p, shift, res) ==
    IF shift > 31 THEN Err("InvalidVarUint32")
    ELSE IF p > Len(b) THEN Err("UnexpectedEof")
    ELSE IF shift = 28 /\ (b[p] % 128) >= 16 THEN Err("InvalidVarUint32")
    ELSE LET r == res + (b[p] % 128) * (2 ^ shift)
         IN IF b[p] < 128 THEN Ok(r, p + 1, TRUE)
            ELSE VarUint32Read(b, p + 1, shift + 7, r)

\* VarUint32::deserialize; canon: the bytes read are the minimal encoding
VarUint32Deserialize(b, p) ==
    LET r == VarUint32Read(b, p, 0, 0)
    IN IF r.ok
       THEN [r EXCEPT !.canon = (r.pos - p = Len(VarUint32Serialize(r.val)))]
       ELSE r

\* std::str::from_utf8 on the model's bytes: ASCII bytes are valid, and a
\* byte in 128..191 (a continuation byte) among ASCII bytes never is
Utf8Valid(s) == \A i \in 1..Len(s) : s[i] < 128

\* String::serialize: the byte length as a varuint32, then the bytes
StringSerialize(s) == VarUint32Serialize(Len(s)) \o s

\* String::deserialize: the length, that many bytes, checked to be UTF-8
StringDeserialize(b, p) ==
    LET n == VarUint32Deserialize(b, p)
    IN IF ~n.ok THEN n
       ELSE IF Remaining(b, n.pos) < n.val THEN Err("UnexpectedEof")
       ELSE LET s == SubSeq(b, n.pos, n.pos + n.val - 1)
            IN IF Utf8Valid(s) THEN Ok(s, n.pos + n.val, n.canon)
               ELSE Err("NonUtf8String")

-----------------------------------------------------------------------------
(* IndexMap<T>: a map from u32 indices to elements, kept in index order *)

\* IndexMap::default
IndexMapDefault == << >>

\* a wrong insert: an index already in the map keeps its element
IndexMapInsert_KeepExisting(m, idx, v) ==
    [k \in (DOMAIN m) \cup {idx} |-> IF k \in DOMAIN m THEN m[k] ELSE v]

\* IndexMap::insert: the element at idx is set, replacing the one there
IndexMapInsert(m, idx, v) ==
    [k \in (DOMAIN m) \cup {idx} |-> IF k = idx THEN v ELSE m[k]]

\* IndexMap::len
IndexMapLen(m) == Cardinality(DOMAIN m)

\* a wrong iteration order: the indices from the highest down
IndexMapKeys_Descending(m) ==
    LET up == SortedKeys(DOMAIN m)
    IN [i \in 1..Len(up) |-> up[Len(up) + 1 - i]]

\* the order IndexMap iterates in: its indices, ascending
IndexMapKeys(m) == SortedKeys(DOMAIN m)

\* IndexMap<T>::serialize: the entry count, then every entry in iteration
\* order as (index, element); elems[k] is the serialization of m[k]
IndexMapSerialize(m, elems) ==
    LET keys == IndexMapKeys(m)
    IN VarUint32Serialize(IndexMapLen(m)) \o
       Concat([i \in 1..Len(keys) |->
                  VarUint32Serialize(keys[i]) \o elems[keys[i]]])

\* NameMap = IndexMap<String>
NameMapSerialize(m) ==
    IndexMapSerialize(m, [k \in DOMAIN m |-> StringSerialize(m[k])])

\* IndexMap<NameMap>
LocalMapSerialize(m) ==
    IndexMapSerialize(m, [k \in DOMAIN m |-> NameMapSerialize(m[k])])

RECURSIVE NameMapEntries(_, _, _, _, _, _)
\* the loop of IndexMap<String>::deserialize: `left` entries to go, prev the
\* last index read (-1: none), each index above the one before it
NameMapEntries(b, p, left, prev, m, canon) ==
    IF left = 0 THEN Ok(m, p, canon)
    ELSE LET idx == VarUint32Deserialize(b, p)
         IN IF ~idx.ok THEN idx
            ELSE IF prev >= idx.val THEN Err("IndicesOutOfOrder")
            ELSE LET v == StringDeserialize(b, idx.pos)
                 IN IF ~v.ok THEN v
                    ELSE NameMapEntries(b, v.pos, left - 1, idx.val,
                                        IndexMapInsert(m, idx.val, v.val),
                                        canon /\ idx.canon /\ v.canon)

\* IndexMap<String>::deserialize
NameMapDeserialize(b, p) ==
    LET n == VarUint32Deserialize(b, p)
    IN IF ~n.ok THEN n
       ELSE NameMapEntries(b, n.pos, n.val, -1, IndexMapDefault, n.canon)

RECURSIVE LocalMapEntries(_, _, _, _, _, _)
\* the loop of IndexMap<NameMap>::deserialize
LocalMapEntries(b, p, left, prev, m, canon) ==
    IF left = 0 THEN Ok(m, p, canon)
    ELSE LET idx == VarUint32Deserialize(b, p)
         IN IF ~idx.ok THEN idx
            ELSE IF prev >= idx.val THEN Err("IndicesOutOfOrder")
            ELSE LET v == NameMapDeserialize(b, idx.pos)
                 IN IF ~v.ok THEN v
                    ELSE LocalMapEntries(b, v.pos, left - 1, idx.val,
                                         IndexMapInsert(m, idx.val, v.val),
                                         canon /\ idx.canon /\ v.canon)

\* IndexMap<NameMap>::deserialize
LocalMapDeserialize(b, p) ==
    LET n == VarUint32Deserialize(b, p)
    IN IF ~n.ok THEN n
       ELSE LocalMapEntries(b, n.pos, n.val, -1, IndexMapDefault, n.canon)

-----------------------------------------------------------------------------
(* NameSection and the three sub-sections *)

\* the four variants of enum NameSection
Module(mod_name) == [type |-> "Module", name |-> mod_name]
Function(fn_names) == [type |-> "Function", names |-> fn_names]
Local(local_names) == [type |-> "Local", local_names |-> local_names]
Unparsed(t, payload) ==
    [type |-> "Unparsed", name_type |-> t, name_payload |-> payload]

\* no value in hand: the last one was moved into serialize
NoSection == [type |-> "None"]

\* impl Serialize for ModuleNameSection
ModuleNameSectionSerialize(v) == StringSerialize(v.name)

\* impl Serialize for FunctionNameSection
FunctionNameSectionSerialize(v) == NameMapSerialize(v.names)

\* impl Serialize for LocalNameSection
LocalNameSectionSerialize(v) == LocalMapSerialize(v.local_names)

\* impl Deserialize for ModuleNameSection
ModuleNameSectionDeserialize(b, p) ==
    LET name == StringDeserialize(b, p)
    IN IF ~name.ok THEN name ELSE [name EXCEPT !.val = Module(name.val)]

\* impl Deserialize for FunctionNameSection
FunctionNameSectionDeserialize(b, p) ==
    LET names == NameMapDeserialize(b, p)
    IN IF ~names.ok THEN names ELSE [names EXCEPT !.val = Function(names.val)]

\* impl Deserialize for LocalNameSection
LocalNameSectionDeserialize(b, p) ==
    LET local_names == LocalMapDeserialize(b, p)
    IN IF ~local_names.ok THEN local_names
       ELSE [local_names EXCEPT !.val = Local(local_names.val)]

\* a wrong `match self`: the Function arm gives NAME_TYPE_LOCAL
SerializeMatch_FunctionAsLocal(v) ==
    CASE v.type = "Module" ->
           <<NAME_TYPE_MODULE, ModuleNameSectionSerialize(v)>>
      [] v.type = "Function" ->
           <<NAME_TYPE_LOCAL, FunctionNameSectionSerialize(v)>>
      [] v.type = "Local" ->
           <<NAME_TYPE_LOCAL, LocalNameSectionSerialize(v)>>
      [] v.type = "Unparsed" ->
           <<v.name_type, v.name_payload>>

\* the `match self` of NameSection::serialize: (name_type, name_payload)
SerializeMatch(v) ==
    CASE v.type = "Module" ->
           <<NAME_TYPE_MODULE, ModuleNameSectionSerialize(v)>>
      [] v.type = "Function" ->
           <<NAME_TYPE_FUNCTION, FunctionNameSectionSerialize(v)>>
      [] v.type = "Local" ->
           <<NAME_TYPE_LOCAL, LocalNameSectionSerialize(v)>>
      [] v.type = "Unparsed" ->
           <<v.name_type, v.name_payload>>

\* a wrong serialize: the length field counts the tag byte too
NameSectionSerialize_LenWithTag(v) ==
    LET m == SerializeMatch(v)
    IN VarUint7Serialize(m[1]) \o VarUint32Serialize(Len(m[2]) + 1) \o m[2]

\* a wrong serialize: the length field is written before the tag
NameSectionSerialize_LenFirst(v) ==
    LET m == SerializeMatch(v)
    IN VarUint32Serialize(Len(m[2])) \o VarUint7Serialize(m[1]) \o m[2]

\* NameSection::serialize: the bytes written for v
NameSectionSerialize(v) ==
    LET m == SerializeMatch(v)
    IN VarUint7Serialize(m[1]) \o VarUint32Serialize(Len(m[2])) \o m[2]

\* wrong known arms: the bytes the sub-section read are checked against
\* name_payload_len
DeserializeKnown_CheckedLen(t, payload_len, b, p) ==
    LET r == CASE t = NAME_TYPE_MODULE -> ModuleNameSectionDeserialize(b, p)
               [] t = NAME_TYPE_FUNCTION -> FunctionNameSectionDeserialize(b, p)
               [] t = NAME_TYPE_LOCAL -> LocalNameSectionDeserialize(b, p)
    IN IF r.ok /\ r.pos - p # payload_len THEN Err("PayloadLenMismatch")
       ELSE r

\* the three known arms of the `match name_type` of NameSection::deserialize,
\* run with the reader at p; name_payload_len is in scope in every arm
DeserializeKnown(t, payload_len, b, p) ==
    CASE t = NAME_TYPE_MODULE -> ModuleNameSectionDeserialize(b, p)
      [] t = NAME_TYPE_FUNCTION -> FunctionNameSectionDeserialize(b, p)
      [] t = NAME_TYPE_LOCAL -> LocalNameSectionDeserialize(b, p)

\* a wrong `_` arm: the zeroed vector is returned without being read into
ReadExactUnparsed_NoRead(t, payload_len, b, p) ==
    IF Remaining(b, p) < payload_len THEN Err("UnexpectedEof")
    ELSE Ok(Unparsed(t, [i \in 1..payload_len |-> 0]), p + payload_len, TRUE)

\* a wrong `_` arm: read in place of read_exact, the bytes that are there
\* are taken and the rest of the vector stays zero
ReadExactUnparsed_Partial(t, payload_len, b, p) ==
    LET got == IF Remaining(b, p) < payload_len THEN Remaining(b, p)
               ELSE payload_len
    IN Ok(Unparsed(t, SubSeq(b, p, p + got - 1)
                          \o [i \in 1..(payload_len - got) |-> 0]),
          p + got, TRUE)

\* rdr.read_exact(&mut name_payload) of the `_` arm, and the value built
ReadExactUnparsed(t, payload_len, b, p) ==
    IF Remaining(b, p) < payload_len THEN Err("UnexpectedEof")
    ELSE Ok(Unparsed(t, SubSeq(b, p, p + payload_len - 1)),
            p + payload_len, TRUE)

-----------------------------------------------------------------------------
(* The caller building one section: ModuleNameSection::new, name_mut,      *)
(* FunctionNameSection::default and names_mut().insert,                    *)
(* LocalNameSection::default and local_names_mut().insert                  *)

Building == pc = "build" /\ written = << >>

ReaderUnchanged ==
    UNCHANGED <<buf, pos, pc, name_type, name_payload_len, body_pos, alloc,
                result, decoded, wtr>>

\* NameSection::Module(ModuleNameSection::new(name))
ModuleNew(name) ==
    /\ Building /\ sect = NoSection
    /\ sect' = Module(name)
    /\ UNCHANGED <<locals, inserts, written>>
    /\ ReaderUnchanged

\* *sect.name_mut() = name
ModuleNameMut(name) ==
    /\ Building /\ sect.type = "Module" /\ sect.name # name
    /\ sect' = [sect EXCEPT !.name = name]
    /\ UNCHANGED <<locals, inserts, written>>
    /\ ReaderUnchanged

\* NameSection::Function(FunctionNameSection::default())
FunctionDefault ==
    /\ Building /\ sect = NoSection
    /\ sect' = Function(IndexMapDefault)
    /\ UNCHANGED <<locals, inserts, written>>
    /\ ReaderUnchanged

\* sect.names_mut().insert(idx, name)
NamesInsert(idx, name) ==
    /\ Building /\ sect.type = "Function" /\ Len(inserts) < MaxInserts
    /\ sect' = [sect EXCEPT !.names = IndexMapInsert(@, idx, name)]
    /\ inserts' = Append(inserts, [map |-> "names", idx |-> idx, val |-> name])
    /\ UNCHANGED <<locals, written>>
    /\ ReaderUnchanged

\* NameSection::Local(LocalNameSection::default())
LocalDefault ==
    /\ Building /\ sect = NoSection
    /\ sect' = Local(IndexMapDefault)
    /\ UNCHANGED <<locals, inserts, written>>
    /\ ReaderUnchanged

\* locals.insert(idx, name), on the NameMap::default() the caller holds
LocalsInsert(idx, name) ==
    /\ Building /\ sect.type = "Local" /\ Len(inserts) < MaxInserts
    /\ locals' = IndexMapInsert(locals, idx, name)
    /\ inserts' = Append(inserts, [map |-> "locals", idx |-> idx, val |-> name])
    /\ UNCHANGED <<sect, written>>
    /\ ReaderUnchanged

\* sect.local_names_mut().insert(idx, locals): locals is moved into the map
\* and the caller goes on with a new NameMap::default()
LocalNamesInsert(idx) ==
    /\ Building /\ sect.type = "Local" /\ Len(inserts) < MaxInserts
    /\ sect' = [sect EXCEPT !.local_names = IndexMapInsert(@, idx, locals)]
    /\ inserts' = Append(inserts,
                         [map |-> "local_names", idx |-> idx, val |-> locals])
    /\ locals' = IndexMapDefault
    /\ UNCHANGED written
    /\ ReaderUnchanged

\* NameSection::Unparsed { name_type: t, name_payload: payload }
UnparsedNew(t, payload) ==
    /\ Building /\ sect = NoSection
    /\ sect' = Unparsed(t, payload)
    /\ UNCHANGED <<locals, inserts, written>>
    /\ ReaderUnchanged

-----------------------------------------------------------------------------
(* NameSection::serialize into the buffer the reader will be made over *)

\* v.serialize(&mut buffer)
Serialize(v) ==
    /\ pc = "build"
    /\ buf' = buf \o NameSectionSerialize(v)
    /\ written' = Append(written, v)
    /\ UNCHANGED <<pos, pc, name_type, name_payload_len, body_pos, alloc,
                   result, decoded, wtr>>

\* the section just built is serialized (and moved)
SerializeBuilt ==
    /\ Building /\ sect # NoSection
    /\ Serialize(sect)
    /\ sect' = NoSection
    /\ UNCHANGED <<locals, inserts>>

\* Cursor::new(buffer) and the first NameSection::deserialize(&mut input)
DeserializeFirst ==
    /\ pc = "build" /\ written # << >>
    /\ pc' = "name_type"
    /\ pos' = 1
    /\ UNCHANGED <<sect, locals, inserts, written, buf, name_type,
                   name_payload_len, body_pos, alloc, result, decoded, wtr>>

-----------------------------------------------------------------------------
(* NameSection::deserialize, statement by statement *)

CallerUnchanged == UNCHANGED <<sect, locals, inserts, written, buf, wtr>>

\* the call returns r; after an error the reader is not used again, and the
\* cursor is left where the last read that succeeded put it
Return(r) ==
    /\ result' = r
    /\ decoded' = Append(decoded, r)
    /\ pos' = IF r.ok THEN r.pos ELSE pos
    /\ pc' = "done"

\* let name_type: u8 = VarUint7::deserialize(rdr)?.into();
ReadNameType ==
    /\ pc = "name_type"
    /\ LET r == VarUint7Deserialize(buf, pos)
       IN IF r.ok
          THEN /\ name_type' = r.val
               /\ pos' = r.pos
               /\ pc' = "payload_len"
               /\ UNCHANGED <<result, decoded>>
          ELSE Return(r) /\ UNCHANGED name_type
    /\ UNCHANGED <<name_payload_len, body_pos, alloc>>
    /\ CallerUnchanged

\* let name_payload_len: u32 = VarUint32::deserialize(rdr)?.into();
ReadPayloadLen ==
    /\ pc = "payload_len"
    /\ LET r == VarUint32Deserialize(buf, pos)
       IN IF r.ok
          THEN /\ name_payload_len' = r.val
               /\ pos' = r.pos
               /\ body_pos' = r.pos
               /\ pc' = "match"
               /\ UNCHANGED <<result, decoded>>
          ELSE Return(r) /\ UNCHANGED <<name_payload_len, body_pos>>
    /\ UNCHANGED <<name_type, alloc>>
    /\ CallerUnchanged

\* NAME_TYPE_MODULE | NAME_TYPE_FUNCTION | NAME_TYPE_LOCAL => the sub-section
\* is deserialized from the reader
MatchKnown ==
    /\ pc = "match" /\ name_type \in KnownTypes
    /\ Return(DeserializeKnown(name_type, name_payload_len, buf, pos))
    /\ UNCHANGED <<name_type, name_payload_len, body_pos, alloc>>
    /\ CallerUnchanged

\* _ => let mut name_payload = vec![0u8; name_payload_len as usize];
MatchUnknownAlloc ==
    /\ pc = "match" /\ name_type \notin KnownTypes
    /\ alloc' = name_payload_len
    /\ pc' = "read_exact"
    /\ UNCHANGED <<pos, name_type, name_payload_len, body_pos, result, decoded>>
    /\ CallerUnchanged

\* rdr.read_exact(&mut name_payload)?; NameSection::Unparsed { .. }
ReadExact ==
    /\ pc = "read_exact"
    /\ Return(ReadExactUnparsed(name_type, name_payload_len, buf, pos))
    /\ UNCHANGED <<name_type, name_payload_len, body_pos, alloc>>
    /\ CallerUnchanged

\* the caller deserializes the next section from the same reader
DeserializeAgain ==
    /\ pc = "done" /\ result.ok /\ Len(decoded) < Len(written)
    /\ pc' = "name_type"
    /\ name_type' = 0 /\ name_payload_len' = 0 /\ body_pos' = 0 /\ alloc' = 0
    /\ UNCHANGED <<pos, result, decoded>>
    /\ CallerUnchanged

\* the caller serializes the value deserialize returned into a new writer
Reserialize ==
    /\ pc = "done" /\ result.ok
    /\ wtr' = NameSectionSerialize(result.val)
    /\ pc' = "reserialized"
    /\ UNCHANGED <<sect, locals, inserts, written, buf, pos, name_type,
                   name_payload_len, body_pos, alloc, result, decoded>>

DeserializeStep ==
    \/ ReadNameType
    \/ ReadPayloadLen
    \/ MatchKnown
    \/ MatchUnknownAlloc
    \/ ReadExact

-----------------------------------------------------------------------------
(* Spec: one section built through the public API, serialized, and          *)
(* deserialized from the bytes written                                      *)

ReaderInit ==
    /\ pos = 1 /\ name_type = 0 /\ name_payload_len = 0 /\ body_pos = 0
    /\ alloc = 0 /\ result = Err("None") /\ decoded = << >> /\ wtr = << >>

Init ==
    /\ sect = NoSection /\ locals = IndexMapDefault /\ inserts = << >>
    /\ written = << >> /\ buf = << >> /\ pc = "build"
    /\ ReaderInit

Next ==
    \/ \E name \in Names : ModuleNew(name)
    \/ \E name \in Names : ModuleNameMut(name)
    \/ FunctionDefault
    \/ \E idx \in Indices, name \in Names : NamesInsert(idx, name)
    \/ LocalDefault
    \/ \E idx \in Indices, name \in Names : LocalsInsert(idx, name)
    \/ \E idx \in Indices : LocalNamesInsert(idx)
    \/ \E t \in UnparsedTypes, payload \in UnparsedPayloads :
          UnparsedNew(t, payload)
    \/ SerializeBuilt
    \/ DeserializeFirst
    \/ DeserializeStep

Spec == Init /\ [][Next]_vars

-----------------------------------------------------------------------------
(* SpecStream: up to MaxSections values serialized one after another into   *)
(* one buffer, then deserialized one after another from one reader          *)

\* the NameMaps and maps of NameMaps the values of SpecStream hold
NameMaps ==
    {IndexMapDefault,
     IndexMapInsert(IndexMapDefault, 0, <<97>>),
     IndexMapInsert(IndexMapInsert(IndexMapDefault, 5, <<97>>), 0, << >>)}

LocalMaps ==
    {IndexMapDefault} \cup
    {IndexMapInsert(IndexMapDefault, f, m) : f \in Indices, m \in NameMaps}
    \cup {IndexMapInsert(IndexMapInsert(IndexMapDefault, 5, m), 0,
                         IndexMapDefault) : m \in NameMaps}

Sections ==
    {Module(n) : n \in Names} \cup {Function(m) : m \in NameMaps}
    \cup {Local(m) : m \in LocalMaps}
    \cup {Unparsed(t, p) : t \in UnparsedTypes, p \in UnparsedPayloads}

\* one more value is serialized into the buffer
SerializeNext ==
    /\ Len(written) < MaxSections
    /\ \E v \in Sections : Serialize(v)
    /\ UNCHANGED <<sect, locals, inserts>>

NextStream ==
    \/ SerializeNext
    \/ DeserializeFirst
    \/ DeserializeStep
    \/ DeserializeAgain

SpecStream == Init /\ [][NextStream]_vars

-----------------------------------------------------------------------------
(* SpecDecode: NameSection::deserialize on an arbitrary input buffer, and   *)
(* the value it returns serialized again                                    *)

InitDecode ==
    /\ sect = NoSection /\ locals = IndexMapDefault /\ inserts = << >>
    /\ written = << >> /\ pc = "name_type"
    /\ buf \in SeqsUpTo(InputBytes, MaxBufLen)
    /\ ReaderInit

NextDecode ==
    \/ DeserializeStep
    \/ Reserialize

SpecDecode == InitDecode /\ [][NextDecode]_vars

-----------------------------------------------------------------------------
(* Properties of NameSection::deserialize on arbitrary input (SpecDecode) *)

\* the deserialize call has returned
Returned == pc \in {"done", "reserialized"}

\* the length field was read: the call reached its `match name_type`
HeaderRead == body_pos > 0

\* b is one unknown-tag section: a tag other than 0, 1, 2, the varuint32
\* encoding of n, and exactly n payload bytes
IsUnknownSection(b, n) ==
    /\ Len(b) = 1 + Len(VarUint32Serialize(n)) + n
    /\ b[1] \notin {0, 1, 2}
    /\ SubSeq(b, 2, Len(b) - n) = VarUint32Serialize(n)

C3_TruncationFailsAnyTag ==
    (Returned /\ HeaderRead /\ name_payload_len > Remaining(buf, body_pos))
        => ~result.ok

\* C3 (amended): for a tag other than 0, 1, 2, a declared name_payload_len
\* larger than the bytes present after the length field makes deserialize
\* fail; no Unparsed value is built from the bytes that are there.
C3_TruncationFailsUnknownTag ==
    (Returned /\ HeaderRead /\ name_type \notin KnownTypes
       /\ name_payload_len > Remaining(buf, body_pos))
        => ~result.ok

\* C3 witness: an unknown-tag section declaring more bytes than it has was
\* rejected, with some of the declared bytes present
C3_Witness ==
    /\ pc = "done" /\ HeaderRead /\ name_type \notin KnownTypes
    /\ Remaining(buf, body_pos) > 0
    /\ name_payload_len > Remaining(buf, body_pos)
    /\ ~result.ok

\* C4 as claimed: when deserialize succeeds on a buffer whose declared
\* name_payload_len is the number of bytes after the length field,
\* serializing the decoded value writes the buffer again.
C4_ByteRoundTrip ==
    (pc = "reserialized" /\ name_payload_len = Remaining(buf, body_pos))
        => wtr = buf

\* every varuint32 of the section deserialize read was minimally encoded
AllVarintsMinimal ==
    /\ body_pos - 2 = Len(VarUint32Serialize(name_payload_len))
    /\ result.canon

\* C4 (amended): when deserialize succeeds on a buffer whose declared
\* name_payload_len is the number of bytes after the length field, reads
\* that payload to its last byte, and every varuint32 in the buffer is
\* minimally encoded, serializing the decoded value writes the buffer again.
C4_ByteRoundTripCanonical ==
    (pc = "reserialized" /\ name_payload_len = Remaining(buf, body_pos)
       /\ result.pos = Len(buf) + 1 /\ AllVarintsMinimal)
        => wtr = buf

\* C4 witness: a function-name section with one entry was decoded whole and
\* written again
C4_Witness ==
    /\ pc = "reserialized" /\ name_type = 1
    /\ name_payload_len = Remaining(buf, body_pos)
    /\ result.pos = Len(buf) + 1 /\ AllVarintsMinimal
    /\ DOMAIN result.val.names # {}

\* C6: the name_payload vector deserialize allocates is never larger than
\* the number of bytes the stream holds after the length field.
C6_AllocationBound == alloc <= Remaining(buf, body_pos)

\* C9: for tag 0, 1 or 2 the outcome of deserialize (success or failure, the
\* value, the bytes the sub-section read consumes) is the one obtained with
\* any other declared name_payload_len in front of the same bytes.
C9_KnownTagIgnoresDeclaredLen ==
    (Returned /\ HeaderRead /\ name_type \in KnownTypes) =>
        \A len \in DeclaredLens :
            LET field == VarUint32Serialize(len)
                other == <<name_type>> \o field
                             \o SubSeq(buf, body_pos, Len(buf))
                start == 2 + Len(field)
                r == DeserializeKnown(name_type, len, other, start)
            IN /\ r.ok = result.ok
               /\ r.ok => /\ r.val = result.val
                          /\ r.pos - start = result.pos - body_pos
               /\ ~r.ok => r.err = result.err

\* C9 witness: a known-tag section decoded although its declared length is
\* not the number of bytes the sub-section read consumed
C9_Witness ==
    /\ pc = "done" /\ HeaderRead /\ name_type \in KnownTypes /\ result.ok
    /\ name_payload_len # result.pos - body_pos

-----------------------------------------------------------------------------
(* Properties of a section built, serialized and deserialized (Spec) *)

\* the section serialize was given
Serialized == written # << >>

\* v is Unparsed with one of the three known tags as its name_type
UnparsedKnownType(v) == v.type = "Unparsed" /\ v.name_type \in {0, 1, 2}

\* C1 as claimed: every value that can be built, Unparsed with any name_type
\* included, deserializes from the bytes serialize wrote to an equal value.
C1_RoundTrip ==
    (Serialized /\ pc = "done") => (result.ok /\ result.val = written[1])

\* C1 (amended): every value that can be built, other than Unparsed with
\* name_type 0, 1 or 2, deserializes from the bytes serialize wrote to an
\* equal value.
C1_RoundTripUnknownUnparsed ==
    (Serialized /\ pc = "done" /\ ~UnparsedKnownType(written[1]))
        => (result.ok /\ result.val = written[1])

\* C1 witness: a local-name section with a named local came back equal
C1_Witness ==
    /\ Serialized /\ pc = "done" /\ result.ok
    /\ written[1].type = "Local"
    /\ \E f \in DOMAIN written[1].local_names :
          DOMAIN written[1].local_names[f] # {}
    /\ result.val = written[1]

\* the tag and the payload the framing of v is to carry
FrameTag(v) ==
    CASE v.type = "Module" -> 0
      [] v.type = "Function" -> 1
      [] v.type = "Local" -> 2
      [] v.type = "Unparsed" -> v.name_type

FramePayload(v) ==
    CASE v.type = "Module" -> ModuleNameSectionSerialize(v)
      [] v.type = "Function" -> FunctionNameSectionSerialize(v)
      [] v.type = "Local" -> LocalNameSectionSerialize(v)
      [] v.type = "Unparsed" -> v.name_payload

\* C5: serialize writes one tag byte (0, 1, 2, or the stored name_type),
\* then the varuint32 encoding of the payload's byte length, then the
\* payload (the sub-section's serialization, or the stored name_payload),
\* and nothing else; the length field is the number of bytes after it.
C5_EncodeFraming ==
    Serialized =>
        LET len == VarUint32Deserialize(buf, 2)
        IN /\ buf[1] = FrameTag(written[1])
           /\ len.ok
           /\ SubSeq(buf, 2, len.pos - 1) =
                  VarUint32Serialize(Len(FramePayload(written[1])))
           /\ len.val = Remaining(buf, len.pos)
           /\ SubSeq(buf, len.pos, Len(buf)) = FramePayload(written[1])

\* C5 witness: a function-name section with two entries was written
C5_Witness ==
    /\ Serialized /\ written[1].type = "Function"
    /\ Cardinality(DOMAIN written[1].names) = 2
    /\ Len(buf) > 2

RECURSIVE WalkNameMap(_, _, _, _)
\* the indices of `left` NameMap entries laid out from cursor p, in the
\* order they are laid out, and the cursor after them
WalkNameMap(b, p, left, idxs) ==
    IF left = 0 THEN [idxs |-> idxs, pos |-> p]
    ELSE LET idx == VarUint32Deserialize(b, p)
             len == VarUint32Deserialize(b, idx.pos)
         IN WalkNameMap(b, len.pos + len.val, left - 1, Append(idxs, idx.val))

\* the count field of the NameMap at cursor p and the indices after it
NameMapLayout(b, p) ==
    LET n == VarUint32Deserialize(b, p)
        w == WalkNameMap(b, n.pos, n.val, << >>)
    IN [count |-> n.val, idxs |-> w.idxs, pos |-> w.pos]

RECURSIVE WalkLocalMap(_, _, _, _, _)
\* the same for a map of NameMaps: the outer indices, the layout of each
\* inner NameMap
WalkLocalMap(b, p, left, idxs, inner) ==
    IF left = 0 THEN [idxs |-> idxs, inner |-> inner, pos |-> p]
    ELSE LET idx == VarUint32Deserialize(b, p)
             m == NameMapLayout(b, idx.pos)
         IN WalkLocalMap(b, m.pos, left - 1, Append(idxs, idx.val),
                         Append(inner, m))

LocalMapLayout(b, p) ==
    LET n == VarUint32Deserialize(b, p)
        w == WalkLocalMap(b, n.pos, n.val, << >>, << >>)
    IN [count |-> n.val, idxs |-> w.idxs, inner |-> w.inner, pos |-> w.pos]

\* where the payload of the section in buf starts
PayloadStart == VarUint32Deserialize(buf, 2).pos

StrictlyAscending(s) == \A i, j \in 1..Len(s) : i < j => s[i] < s[j]

\* the indices the insert calls into `map` were given
InsertedInto(map) ==
    {inserts[k].idx : k \in {i \in 1..Len(inserts) : inserts[i].map = map}}

\* C7: whatever the order of the insert calls, the serialized payload lists
\* the entries of a FunctionNameSection's NameMap, of a LocalNameSection's
\* outer map and of each of its inner NameMaps in strictly ascending index
\* order, and they are the indices inserted.
C7_MapOrdering ==
    /\ (Serialized /\ written[1].type = "Function") =>
          LET m == NameMapLayout(buf, PayloadStart)
          IN /\ StrictlyAscending(m.idxs)
             /\ {m.idxs[i] : i \in 1..Len(m.idxs)} = InsertedInto("names")
             /\ m.pos = Len(buf) + 1
    /\ (Serialized /\ written[1].type = "Local") =>
          LET m == LocalMapLayout(buf, PayloadStart)
          IN /\ StrictlyAscending(m.idxs)
             /\ {m.idxs[i] : i \in 1..Len(m.idxs)} =
                    InsertedInto("local_names")
             /\ \A i \in 1..Len(m.inner) :
                   /\ StrictlyAscending(m.inner[i].idxs)
                   /\ {m.inner[i].idxs[j] : j \in 1..Len(m.inner[i].idxs)}
                          \subseteq InsertedInto("locals")
             /\ m.pos = Len(buf) + 1

\* C7 witness: index 5 was inserted into a NameMap, then index 0, and the
\* section was serialized with index 0's entry first
C7_Witness ==
    /\ Serialized /\ written[1].type = "Function"
    /\ Len(inserts) = 2 /\ inserts[1].idx = 5 /\ inserts[2].idx = 0
    /\ NameMapLayout(buf, PayloadStart).idxs = <<0, 5>>

\* the section being built, or the one that was serialized
Built == IF Serialized THEN written[1] ELSE sect

\* the insert calls after the last time `locals` was moved into local_names
LocalsSince ==
    LET moved == {k \in 1..Len(inserts) : inserts[k].map = "local_names"}
        from == IF moved = {} THEN 0
                ELSE CHOOSE k \in moved : \A j \in moved : j <= k
    IN {k \in 1..Len(inserts) : k > from /\ inserts[k].map = "locals"}

\* m holds one element for each index the calls in `calls` inserted: the one
\* the last of the calls with that index was given
HoldsLastInserted(m, calls) ==
    /\ DOMAIN m = {inserts[k].idx : k \in calls}
    /\ \A k \in calls :
          (\A j \in calls : inserts[j].idx = inserts[k].idx => j <= k)
              => m[inserts[k].idx] = inserts[k].val

\* C8: after any sequence of insert calls every index is in the map once,
\* with the element of the last call that inserted it, and the count field
\* of the serialized map is the number of distinct indices inserted.
C8_Uniqueness ==
    /\ Built.type = "Function" =>
          HoldsLastInserted(Built.names,
              {k \in 1..Len(inserts) : inserts[k].map = "names"})
    /\ Built.type = "Local" =>
          /\ HoldsLastInserted(Built.local_names,
                 {k \in 1..Len(inserts) : inserts[k].map = "local_names"})
          /\ HoldsLastInserted(locals, LocalsSince)
    /\ (Serialized /\ written[1].type = "Function") =>
          LET m == NameMapLayout(buf, PayloadStart)
          IN /\ m.count = Cardinality(InsertedInto("names"))
             /\ Len(m.idxs) = Cardinality({m.idxs[i] : i \in 1..Len(m.idxs)})
    /\ (Serialized /\ written[1].type = "Local") =>
          LET m == LocalMapLayout(buf, PayloadStart)
          IN /\ m.count = Cardinality(InsertedInto("local_names"))
             /\ Len(m.idxs) = Cardinality({m.idxs[i] : i \in 1..Len(m.idxs)})
             /\ \A i \in 1..Len(m.inner) :
                   /\ m.inner[i].count = Len(m.inner[i].idxs)
                   /\ m.inner[i].count =
                        Cardinality({m.inner[i].idxs[j] :
                                        j \in 1..Len(m.inner[i].idxs)})

\* C8 witness: two insert calls under one index with different names, and a
\* serialized count field of 1
C8_Witness ==
    /\ Serialized /\ written[1].type = "Function"
    /\ Len(inserts) = 2 /\ inserts[1].idx = inserts[2].idx
    /\ inserts[1].val # inserts[2].val
    /\ written[1].names[inserts[2].idx] = inserts[2].val
    /\ NameMapLayout(buf, PayloadStart).count = 1

-----------------------------------------------------------------------------
(* Properties of a sequence of sections in one buffer (SpecStream) *)

\* the cursor after the bytes of the first k values written
EndOf(k) ==
    1 + Len(Concat([j \in 1..k |-> NameSectionSerialize(written[j])]))

\* the k-th deserialize call returned the k-th value written and left the
\* reader right after that value's bytes
InStep(k) ==
    /\ decoded[k].ok
    /\ decoded[k].val = written[k]
    /\ decoded[k].pos = EndOf(k)

\* C10 as claimed: whatever values are serialized one after another, the
\* successive deserialize calls return them in order, each consuming the
\* bytes its serialize call wrote, the reader ending at the buffer's end.
C10_StreamSync ==
    /\ \A k \in 1..Len(decoded) : InStep(k)
    /\ (pc = "done" /\ Len(decoded) = Len(written)) => pos = Len(buf) + 1

\* C10 (amended): when none of the values serialized one after another is
\* Unparsed with name_type 0, 1 or 2, the successive deserialize calls
\* return them in order, each consuming the bytes its serialize call wrote,
\* the reader ending at the buffer's end.
C10_StreamSyncUnknownUnparsed ==
    (\A j \in 1..Len(written) : ~UnparsedKnownType(written[j])) =>
        /\ \A k \in 1..Len(decoded) : InStep(k)
        /\ (pc = "done" /\ Len(decoded) = Len(written)) => pos = Len(buf) + 1

\* C10 witness: a local-name section followed by an unparsed one were both
\* read back, the reader at the end of the buffer
C10_Witness ==
    /\ pc = "done" /\ Len(written) = 2 /\ Len(decoded) = 2
    /\ written[1].type = "Local" /\ written[1].local_names # IndexMapDefault
    /\ written[2].type = "Unparsed" /\ written[2].name_payload # << >>
    /\ InStep(1) /\ InStep(2)
    /\ pos = Len(buf) + 1

=============================================================================
